---- MODULE Spec2Model ----
(***************************************************************************)
(* Model of replace_fontawesome.py, the FontAwesome-to-emoji converter:    *)
(* main() lists the .ejs files under views/, drops the paths that contain  *)
(* "backup", and calls replace_fontawesome_in_file on each in sorted       *)
(* order; that function rewrites the icon elements of one file with the    *)
(* emoji of ICON_MAP.                                                      *)
(*                                                                         *)
(* Text is a TLA+ string and positions are 1-based.  A module is ASCII, so *)
(* an emoji of the table is written as the HTML numeric character          *)
(* references of its code points ("&#x1F4BE;" for U+1F4BE).  No pattern of *)
(* the program names a character of such a reference, and neither an emoji *)
(* nor a reference holds whitespace, a quote or an angle bracket, so the   *)
(* patterns treat the two alike.                                           *)
(***************************************************************************)
EXTENDS Integers, Sequences, FiniteSets, TLC

(***************************************************************************)
(* Bounds of the model.                                                    *)
(***************************************************************************)
\* How many times the program is run on the same tree.
MaxRuns == 2
\* How many files of the tree cannot be read, or cannot be written.
MaxFaults == 1

(***************************************************************************)
(* ICON_MAP, in insertion order (the order in which a dict is iterated).   *)
(***************************************************************************)
ICON_MAP ==
  <<
    <<"fa-arrow-left", "&#x2190;">>,
    <<"fa-arrow-right", "&#x2192;">>,
    <<"fa-arrow-up", "&#x2191;">>,
    <<"fa-arrow-down", "&#x2193;">>,
    <<"fa-chevron-left", "&#x2039;">>,
    <<"fa-chevron-right", "&#x203A;">>,
    <<"fa-times", "&#x2716;&#xFE0F;">>,
    <<"fa-times-circle", "&#x274C;">>,
    <<"fa-check", "&#x2713;">>,
    <<"fa-check-circle", "&#x2705;">>,
    <<"fa-plus", "&#x2795;">>,
    <<"fa-minus", "&#x2796;">>,
    <<"fa-minus-circle", "&#x2796;">>,
    <<"fa-save", "&#x1F4BE;">>,
    <<"fa-edit", "&#x270F;&#xFE0F;">>,
    <<"fa-trash", "&#x1F5D1;&#xFE0F;">>,
    <<"fa-trash-alt", "&#x1F5D1;&#xFE0F;">>,
    <<"fa-search", "&#x1F50D;">>,
    <<"fa-filter", "&#x1F50D;">>,
    <<"fa-sync", "&#x1F504;">>,
    <<"fa-sync-alt", "&#x1F504;">>,
    <<"fa-refresh", "&#x1F504;">>,
    <<"fa-redo", "&#x1F504;">>,
    <<"fa-spinner", "&#x23F3;">>,
    <<"fa-cog", "&#x2699;&#xFE0F;">>,
    <<"fa-eye", "&#x1F441;&#xFE0F;">>,
    <<"fa-download", "&#x2B07;&#xFE0F;">>,
    <<"fa-upload", "&#x2B06;&#xFE0F;">>,
    <<"fa-file-upload", "&#x1F4E4;">>,
    <<"fa-play", "&#x25B6;&#xFE0F;">>,
    <<"fa-circle", "&#x1F535;">>,
    <<"fa-info-circle", "&#x2139;&#xFE0F;">>,
    <<"fa-question-circle", "&#x2753;">>,
    <<"fa-exclamation-circle", "&#x26A0;&#xFE0F;">>,
    <<"fa-exclamation-triangle", "&#x26A0;&#xFE0F;">>,
    <<"fa-lightbulb", "&#x1F4A1;">>,
    <<"fa-bell", "&#x1F514;">>,
    <<"fa-clock", "&#x23F1;&#xFE0F;">>,
    <<"fa-calendar", "&#x1F4C5;">>,
    <<"fa-calendar-plus", "&#x1F4C5;">>,
    <<"fa-calendar-alt", "&#x1F4C5;">>,
    <<"fa-calendar-check", "&#x2705;">>,
    <<"fa-history", "&#x1F4DC;">>,
    <<"fa-stopwatch", "&#x23F1;&#xFE0F;">>,
    <<"fa-envelope", "&#x2709;&#xFE0F;">>,
    <<"fa-phone", "&#x1F4DE;">>,
    <<"fa-comments", "&#x1F4AC;">>,
    <<"fa-comment", "&#x1F4AC;">>,
    <<"fa-paper-plane", "&#x1F4E4;">>,
    <<"fa-reply", "&#x21A9;&#xFE0F;">>,
    <<"fa-inbox", "&#x1F4E5;">>,
    <<"fa-user", "&#x1F464;">>,
    <<"fa-users", "&#x1F465;">>,
    <<"fa-user-circle", "&#x1F464;">>,
    <<"fa-user-check", "&#x2705;">>,
    <<"fa-building", "&#x1F3E2;">>,
    <<"fa-briefcase", "&#x1F4BC;">>,
    <<"fa-handshake", "&#x1F91D;">>,
    <<"fa-folder", "&#x1F4C1;">>,
    <<"fa-folder-open", "&#x1F4C2;">>,
    <<"fa-folder-plus", "&#x1F4C1;">>,
    <<"fa-file-alt", "&#x1F4C4;">>,
    <<"fa-file-contract", "&#x1F4CB;">>,
    <<"fa-robot", "&#x1F916;">>,
    <<"fa-laptop-code", "&#x1F4BB;">>,
    <<"fa-database", "&#x1F4BE;">>,
    <<"fa-server", "&#x1F5A5;&#xFE0F;">>,
    <<"fa-terminal", "&#x1F4BB;">>,
    <<"fa-code", "&#x1F4BB;">>,
    <<"fa-shield-alt", "&#x1F6E1;&#xFE0F;">>,
    <<"fa-lock", "&#x1F512;">>,
    <<"fa-key", "&#x1F511;">>,
    <<"fa-image", "&#x1F5BC;&#xFE0F;">>,
    <<"fa-music", "&#x1F3B5;">>,
    <<"fa-microphone", "&#x1F3A4;">>,
    <<"fa-video", "&#x1F3A5;">>,
    <<"fa-newspaper", "&#x1F4F0;">>,
    <<"fa-map-marker-alt", "&#x1F4CD;">>,
    <<"fa-map-signs", "&#x1F5FA;&#xFE0F;">>,
    <<"fa-globe", "&#x1F30D;">>,
    <<"fa-facebook", "&#x1F4D8;">>,
    <<"fa-instagram", "&#x1F4F7;">>,
    <<"fa-tiktok", "&#x1F3B5;">>,
    <<"fa-linkedin", "&#x1F4BC;">>,
    <<"fa-youtube", "&#x1F4FA;">>,
    <<"fa-twitter", "&#x1F426;">>,
    <<"fa-google", "&#x1F50D;">>,
    <<"fa-share-alt", "&#x1F517;">>,
    <<"fa-list", "&#x1F4CB;">>,
    <<"fa-list-check", "&#x2705;">>,
    <<"fa-chart-bar", "&#x1F4CA;">>,
    <<"fa-chart-line", "&#x1F4C8;">>,
    <<"fa-toggle-on", "&#x1F51B;">>,
    <<"fa-sitemap", "&#x1F5FA;&#xFE0F;">>,
    <<"fa-tag", "&#x1F3F7;&#xFE0F;">>,
    <<"fa-tags", "&#x1F3F7;&#xFE0F;">>,
    <<"fa-link", "&#x1F517;">>,
    <<"fa-external-link-alt", "&#x1F517;">>,
    <<"fa-bolt", "&#x26A1;">>,
    <<"fa-mobile-alt", "&#x1F4F1;">>,
    <<"fa-rocket", "&#x1F680;">>,
    <<"fa-magic", "&#x2728;">>,
    <<"fa-star", "&#x2B50;">>,
    <<"fa-broom", "&#x1F9F9;">>,
    <<"fa-box-open", "&#x1F4E6;">>,
    <<"fa-undo", "&#x21A9;&#xFE0F;">>,
    <<"fa-flask", "&#x1F9EA;">>,
    <<"fa-vial", "&#x1F9EA;">>,
    <<"fa-ban", "&#x1F6AB;">>,
    <<"fa-sliders-h", "&#x1F39A;&#xFE0F;">>,
    <<"fa-exchange-alt", "&#x1F504;">>,
    <<"fa-plug", "&#x1F50C;">>,
    <<"fa-door-open", "&#x1F6AA;">>,
    <<"fa-layer-group", "&#x1F4DA;">>,
    <<"fa-network-wired", "&#x1F310;">>,
    <<"fa-signal", "&#x1F4F6;">>,
    <<"fa-hand-pointer", "&#x1F446;">>,
    <<"fa-ellipsis-h", "&#x22EF;">>,
    <<"fa-sort", "&#x21C5;">>,
    <<"fa-sort-numeric-down", "&#x1F522;">>,
    <<"fa-archive", "&#x1F4E6;">>,
    <<"fa-guitar", "&#x1F3B8;">>,
    <<"fa-home", "&#x1F3E0;">>,
    <<"fa-sign-out-alt", "&#x1F6AA;">>,
    <<"fa-circle-notch", "&#x23F3;">>,
    <<"fa-satellite-dish", "&#x1F4E1;">>,
    <<"fa-book", "&#x1F4D6;">>
  >>

Min(S) == CHOOSE x \in S : \A y \in S : x <= y
Max(S) == CHOOSE x \in S : \A y \in S : x >= y

CharAt(s, i) == SubSeq(s, i, i)

(***************************************************************************)
(* Texts.  A text (a str of the program, the content of a file) is written *)
(* as a string in which a character up to U+007F stands for itself and a   *)
(* character above it is the reference &#xH; with H its code point in      *)
(* upper-case hexadecimal digits without leading zeros.  In the content of *)
(* a file, &#bHH; is a byte that is part of no complete UTF-8 character.   *)
(* (A text that holds such a reference spelled out in characters up to     *)
(* U+007F has no writing here; no text of the model does.)                 *)
(***************************************************************************)
\* The characters of the hexadecimal digits of a reference.
HexDigits == "0123456789ABCDEF"
HexDigitSet == {CharAt(HexDigits, k) : k \in 1..16}

\* The length of the reference that starts at position i of s, or 0: &#x,
\* one to six digits and ; or &#b, two digits and ; .
RefLen(s, i) ==
  IF i + 3 <= Len(s) /\ SubSeq(s, i, i + 1) = "&#" /\ CharAt(s, i + 2) \in {"x", "b"}
  THEN LET ends == {j \in (i + 4)..Min({Len(s), i + 9}) :
                      /\ CharAt(s, j) = ";"
                      /\ CharAt(s, i + 2) = "b" => j = i + 5
                      /\ \A k \in (i + 3)..(j - 1) : CharAt(s, k) \in HexDigitSet}
       IN IF ends = {} THEN 0 ELSE Min(ends) - i + 1
  ELSE 0

\* The length of the character that starts at position i of s.
UnitLen(s, i) ==
  IF CharAt(s, i) = "&" THEN Max({1, RefLen(s, i)}) ELSE 1

\* The character that starts at position i of s.
UnitAt(s, i) == SubSeq(s, i, i + UnitLen(s, i) - 1)

\* What stands inside a reference after its first character.
RefInner == HexDigitSet \cup {"#", "x", "b", ";"}

\* Position i of s is where a character starts (or the end of s), not the
\* inside of a reference.
IsBoundary(s, i) ==
  \/ i > Len(s)
  \/ CharAt(s, i) \notin RefInner
  \/ ~\E p \in Max({1, i - 9})..(i - 1) :
        CharAt(s, p) = "&" /\ p + RefLen(s, p) > i

(***************************************************************************)
(* Regular expressions.  A pattern is a sequence of nodes; Match is a      *)
(* backtracking matcher with the semantics of Python's re module for the   *)
(* constructs the program uses: a literal, a character class, a greedy     *)
(* repetition of a class (star, plus) and a greedy optional group.         *)
(***************************************************************************)
\* \s of a str pattern: the characters c with c.isspace(): space, \t, \n,
\* \r, \f, \v (U+000B), U+001C to U+001F (each written here as the
\* character itself), and the white space above U+007F.
Whitespace ==
  {" ", "\t", "\n", "\r", "\f", "", "", "", "", "",
   "&#x85;", "&#xA0;", "&#x1680;", "&#x2000;", "&#x2001;", "&#x2002;",
   "&#x2003;", "&#x2004;", "&#x2005;", "&#x2006;", "&#x2007;", "&#x2008;",
   "&#x2009;", "&#x200A;", "&#x2028;", "&#x2029;", "&#x202F;", "&#x205F;",
   "&#x3000;"}

Lit(str)    == [t |-> "lit",  s |-> str, neg |-> FALSE, cs |-> {}, r |-> <<>>]
OneOf(cs)   == [t |-> "one",  s |-> "",  neg |-> FALSE, cs |-> cs, r |-> <<>>]
Plus(cs)    == [t |-> "plus", s |-> "",  neg |-> FALSE, cs |-> cs, r |-> <<>>]
Star(cs)    == [t |-> "star", s |-> "",  neg |-> FALSE, cs |-> cs, r |-> <<>>]
StarNot(cs) == [t |-> "star", s |-> "",  neg |-> TRUE,  cs |-> cs, r |-> <<>>]
Opt(sub)    == [t |-> "opt",  s |-> "",  neg |-> FALSE, cs |-> {}, r |-> sub]

InClass(node, c) == IF node.neg THEN c \notin node.cs ELSE c \in node.cs

\* The length of the run that starts at position i of s, when stops are the
\* positions from i on where a character outside the class begins.
RunEnd(s, i, stops) ==
  IF stops = {} THEN Len(s) + 1 - i ELSE Min(stops) - i

\* The length of the run of characters of the class of node that starts at
\* position i of s.
RunLength(node, s, i) ==
  LET stops == {j \in i..Len(s) :
                  IsBoundary(s, j) /\ ~InClass(node, UnitAt(s, j))}
  IN RunEnd(s, i, stops)

\* The ways to match a repetition of at least `least` characters where a run
\* of length run starts at i, the longest first: what is left of the
\* pattern, and from where.
Shorter(t, i, run, least) ==
  [n \in 1..(run - least + 1) |-> <<t, i + run - n + 1>>]

\* The ways to match the first node of re, a repetition or an optional
\* group, at position i of s, the one the matcher tries first first.  A
\* repetition takes the longest run first, then shorter ones; an optional
\* group is tried before it is skipped.
Alternatives(re, s, i) ==
  IF Head(re).t = "opt"
  THEN << <<Head(re).r \o Tail(re), i>>, <<Tail(re), i>> >>
  ELSE Shorter(Tail(re), i, RunLength(Head(re), s, i),
               IF Head(re).t = "plus" THEN 1 ELSE 0)

\* The end of the first of the alternatives that led to a match, or 0 when
\* none did; ends holds, for each alternative, its place in the order and
\* the end of the match (0 when there is none).
Best(ends) ==
  IF \A p \in ends : p[2] = 0 THEN 0
  ELSE (CHOOSE p \in ends :
          p[2] # 0 /\ \A q \in ends : q[2] # 0 => p[1] <= q[1])[2]

\* The literal of node stands at position i of s.
LitAt(node, s, i) ==
  /\ node.t = "lit"
  /\ i + Len(node.s) - 1 <= Len(s)
  /\ SubSeq(s, i, i + Len(node.s) - 1) = node.s

\* One character of the class of node stands at position i of s.
OneAt(node, s, i) ==
  node.t = "one" /\ i <= Len(s) /\ InClass(node, UnitAt(s, i))

RECURSIVE Match(_, _, _)
\* The position after the match of the first of alts after which the rest
\* of the pattern matches.
TryInOrder(alts, s) ==
  Best({<<n, Match(alts[n][1], s, alts[n][2])>> :
          n \in {m \in 1..Len(alts) : IsBoundary(s, alts[m][2])}})

\* The position after the match of re that starts at position i of s, or 0
\* when there is none.  A literal and a single character match in one way;
\* for a repetition and an optional group the ways are tried in order.
Match(re, s, i) ==
  CASE Len(re) = 0 -> i
    [] Len(re) > 0 /\ LitAt(Head(re), s, i) ->
         Match(Tail(re), s, i + Len(Head(re).s))
    [] Len(re) > 0 /\ OneAt(Head(re), s, i) ->
         Match(Tail(re), s, i + UnitLen(s, i))
    [] Len(re) > 0 /\ Head(re).t \in {"star", "plus", "opt"} ->
         TryInOrder(Alternatives(re, s, i), s)
    [] OTHER -> 0

\* Whether sub stands somewhere in s.
Occurs(sub, s) ==
  \E i \in 1..(Len(s) - Len(sub) + 1) : SubSeq(s, i, i + Len(sub) - 1) = sub

\* Where a match of re can start in s from position i on.  A match holds
\* every literal of the pattern that is no part of an optional group, and
\* starts with the first character of the pattern's first literal: s is
\* searched only when those literals stand in it, and only from where that
\* character stands.
Starts(re, s, i) ==
  IF \E n \in 1..Len(re) : re[n].t = "lit" /\ ~Occurs(re[n].s, s) THEN {}
  ELSE {j \in i..Len(s) :
          /\ Head(re).t = "lit" => CharAt(s, j) = CharAt(Head(re).s, 1)
          /\ IsBoundary(s, j)
          /\ Match(re, s, j) # 0}

RECURSIVE FindSpans(_, _, _)
\* The match that starts at j, then the matches after it.
SpanThen(re, s, j, e) == <<<<j, e>>>> \o FindSpans(re, s, e)

\* The first of the matches that start at starts, then the matches after it.
FirstSpan(re, s, starts) ==
  IF starts = {} THEN <<>>
  ELSE LET e == Match(re, s, Min(starts))
       IN SpanThen(re, s, Min(starts), e)

\* The non-overlapping matches of re in s from position i on, leftmost first,
\* each as <<start, position after the end>>.  (No pattern of the program
\* matches the empty string.)
FindSpans(re, s, i) ==
  LET starts == Starts(re, s, i)
  IN FirstSpan(re, s, starts)

RECURSIVE Splice(_, _, _, _, _)
\* s from position from on, with spans k.. replaced by repl.
Splice(s, spans, k, from, repl) ==
  IF k > Len(spans) THEN SubSeq(s, from, Len(s))
  ELSE SubSeq(s, from, spans[k][1] - 1) \o repl
       \o Splice(s, spans, k + 1, spans[k][2], repl)

\* re.findall(pattern, string): the matches (here, where they are).
re_findall(re, s) == FindSpans(re, s, 1)

\* re.sub(pattern, repl, string).
re_sub(re, repl, s) ==
  LET spans == FindSpans(re, s, 1)
  IN Splice(s, spans, 1, 1, repl)

\* The end of pattern1 and of pattern2: the closing quote of the class, an
\* optional style attribute, the empty element's end, trailing whitespace.
element_tail ==
  << Lit("\""), Star(Whitespace),
     Opt(<< Lit("style=\""), StarNot({"\""}), Lit("\"") >>),
     Star(Whitespace), Lit("></i>"), Star(Whitespace) >>

\* Pattern 1: the class is a prefix, the identifier and optionally, after
\* whitespace, anything up to the quote.
pattern1(fa_class) ==
  << Lit("<i"), Plus(Whitespace), Lit("class=\""),
     Lit("fa"), OneOf({"s", "r", "b"}), Plus(Whitespace), Lit(fa_class),
     Opt(<< Plus(Whitespace), StarNot({"\""}) >>) >> \o element_tail

\* A faulty variant of pattern2: the part before the prefix is missing.
pattern2_prefix_first(fa_class) ==
  << Lit("<i"), Plus(Whitespace), Lit("class=\""),
     Lit("fa"), OneOf({"s", "r", "b"}), Plus(Whitespace), Lit(fa_class),
     StarNot({"\""}) >> \o element_tail

\* Pattern 2: anything may stand before the prefix and directly after the
\* identifier, up to the quote.
pattern2(fa_class) ==
  << Lit("<i"), Plus(Whitespace), Lit("class=\""), StarNot({"\""}),
     Lit("fa"), OneOf({"s", "r", "b"}), Plus(Whitespace), Lit(fa_class),
     StarNot({"\""}) >> \o element_tail

\* The special case: class "fas fa-spinner fa-spin", then anything up to
\* the end of the tag.
spinner_pattern ==
  << Lit("<i"), Plus(Whitespace), Lit("class=\""), Lit("fas"), Plus(Whitespace),
     Lit("fa-spinner"), Plus(Whitespace), Lit("fa-spin"), Lit("\""),
     StarNot({">"}), Lit("></i>") >>

\* The glyph of the special case (U+23F3).
SPINNER_GLYPH == "&#x23F3;"

\* What a match is replaced by: f'{emoji} '.
Replacement(emoji) == emoji \o " "

\* if matches: content = re.sub(...); changes += len(matches)
Substitute(acc, re, emoji, matches) ==
  IF Len(matches) > 0
  THEN [content |-> re_sub(re, Replacement(emoji), acc.content),
        changes |-> acc.changes + Len(matches)]
  ELSE acc

\* The four lines for one pattern: findall, then sub and the count.  (In an
\* empty text nothing is found.)
ReplacePattern(acc, re, emoji) ==
  IF acc.content = "" THEN acc
  ELSE Substitute(acc, re, emoji, re_findall(re, acc.content))

\* One iteration of the loop over ICON_MAP; acc is [content, changes].
ReplaceIcon(acc, fa_class, emoji) ==
  LET p1 == pattern1(fa_class)
      p2 == pattern2(fa_class)
      after1 == ReplacePattern(acc, p1, emoji)
  IN ReplacePattern(after1, p2, emoji)

\* The least of ks, or 0 when ks is empty.
LeastOr0(ks) == IF ks = {} THEN 0 ELSE Min(ks)

\* The place in ICON_MAP, from lo on, of the first identifier that stands in
\* content, or 0 when there is none.  Both patterns of an identifier hold it
\* as a literal, so the iterations for the identifiers that do not stand in
\* content find no match and leave content and changes as they are.
NextIcon(content, lo) ==
  LeastOr0({k \in lo..Len(ICON_MAP) : Occurs(ICON_MAP[k][1], content)})

RECURSIVE ReplaceIcons(_, _)
\* The iteration k of the loop, then the ones after it; the loop is over
\* when k is 0.
IconsFrom(acc, k) ==
  IF k = 0 THEN acc
  ELSE ReplaceIcons(ReplaceIcon(acc, ICON_MAP[k][1], ICON_MAP[k][2]), k + 1)

\* The iterations of the loop over ICON_MAP from lo on, in order.
ReplaceIcons(acc, lo) ==
  IF acc.content = "" THEN acc
  ELSE IconsFrom(acc, NextIcon(acc.content, lo))

\* The special case, applied to what the loop gave.
SpinnerCase(r) ==
  IF r.content = "" THEN r
  ELSE [content |-> re_sub(spinner_pattern, SPINNER_GLYPH, r.content),
        changes |-> r.changes]

\* The text and the count that replace_fontawesome_in_file computes from the
\* text it read: the loop, then the special case of the spinner.
Rewrite(original_content) ==
  SpinnerCase(ReplaceIcons([content |-> original_content, changes |-> 0], 1))

(***************************************************************************)
(* Paths.  A path is the sequence of its segments below the directory of   *)
(* the script, Path(__file__).parent.                                      *)
(***************************************************************************)
\* Where the script is installed.
SCRIPT_DIR == "/srv/koncert24"

\* Path(__file__).parent / 'views'
base_dir == <<"views">>

RECURSIVE Join(_, _)
Join(segments, k) ==
  IF k > Len(segments) THEN ""
  ELSE "/" \o segments[k] \o Join(segments, k + 1)

\* str(f)
Str(path) == SCRIPT_DIR \o Join(path, 1)

\* sub in s
Contains(s, sub) ==
  \E i \in 1..(Len(s) - Len(sub) + 1) : SubSeq(s, i, i + Len(sub) - 1) = sub

EndsWith(s, suffix) ==
  Len(s) >= Len(suffix) /\ SubSeq(s, Len(s) - Len(suffix) + 1, Len(s)) = suffix

IsUnder(path, dir) ==
  Len(path) > Len(dir) /\ SubSeq(path, 1, Len(dir)) = dir

\* The characters of the model's paths, in code point order.
PathChars == "-./0123456789_abcdefghijklmnopqrstuvwxyz"
CodePoint(c) == CHOOSE i \in 1..Len(PathChars) : CharAt(PathChars, i) = c

\* a < b on str: by code points, a proper prefix first.
StrLess(a, b) ==
  LET n == IF Len(a) < Len(b) THEN Len(a) ELSE Len(b)
      diff == {i \in 1..n : CharAt(a, i) # CharAt(b, i)}
  IN IF diff = {} THEN Len(a) < Len(b)
     ELSE CodePoint(CharAt(a, Min(diff))) < CodePoint(CharAt(b, Min(diff)))

\* p < q on Path: the lists of segments are compared.
PathLess(p, q) ==
  LET n == IF Len(p) < Len(q) THEN Len(p) ELSE Len(q)
      diff == {i \in 1..n : p[i] # q[i]}
  IN IF diff = {} THEN Len(p) < Len(q)
     ELSE StrLess(p[Min(diff)], q[Min(diff)])

Range(seq) == {seq[i] : i \in 1..Len(seq)}

\* sorted(paths), for paths that differ from one another.
sorted(paths) ==
  [i \in 1..Len(paths) |->
     CHOOSE p \in Range(paths) :
       Cardinality({q \in Range(paths) : PathLess(q, p)}) = i - 1]

\* The orders in which a directory walk can list the paths of S.
Listings(S) ==
  {l \in [1..Cardinality(S) -> S] : \A i, j \in 1..Cardinality(S) : l[i] = l[j] => i = j}

\* [f for f in ejs_files if 'backup' not in str(f)]
RECURSIVE ExcludeBackup(_, _)
ExcludeBackup(listing, k) ==
  IF k > Len(listing) THEN <<>>
  ELSE (IF Contains(Str(listing[k]), "backup") THEN <<>> ELSE <<listing[k]>>)
       \o ExcludeBackup(listing, k + 1)

(***************************************************************************)
(* The state.                                                              *)
(***************************************************************************)
VARIABLES
  files,          \* the text of every file of the tree, by path
  faults,         \* by path: "none", "noread" (opening or reading fails),
                  \*   "nowrite" (writing the file back fails)
  views_exists,   \* whether base_dir exists
  pc,             \* "start", "loop", "done"; "crashed": an exception left main
  ejs_files,      \* the list main iterates over
  idx,            \* the position in ejs_files of the next file
  total_changes,
  files_modified,
  out,            \* what this run printed
  run,            \* which run of the program this is
  at_start,       \* history: files when this run started
  calls,          \* history: the calls of replace_fontawesome_in_file, all runs
  given           \* history: how the input was put together

vars == <<files, faults, views_exists, pc, ejs_files, idx, total_changes,
          files_modified, out, run, at_start, calls, given>>

Line(kind, path, n, m) == [kind |-> kind, path |-> path, n |-> n, m |-> m]

(***************************************************************************)
(* Reading and writing a file.                                             *)
(***************************************************************************)
\* f.read() of a file opened with encoding='utf-8' raises when the bytes of
\* the file are no UTF-8 text, that is, when the file holds a byte that is
\* part of no complete character (the reference &#bHH; , not the plain
\* characters &#b that begin none).
Decodable(text) ==
  ~\E i \in 1..(Len(text) - 5) : CharAt(text, i + 2) = "b" /\ RefLen(text, i) > 0

RECURSIVE TranslateNewlines(_, _, _)
\* The characters lo..hi of text with every \r\n and every other \r read as
\* \n.
TranslateNewlines(text, lo, hi) ==
  IF lo > hi THEN ""
  ELSE IF lo = hi
  THEN IF CharAt(text, lo) = "\r" THEN "\n"
       ELSE IF CharAt(text, lo) = "\n" /\ lo > 1 /\ CharAt(text, lo - 1) = "\r"
       THEN ""
       ELSE CharAt(text, lo)
  ELSE LET mid == (lo + hi) \div 2
       IN TranslateNewlines(text, lo, mid) \o TranslateNewlines(text, mid + 1, hi)

\* What f.read() gives for a file that holds text: open(file_path, 'r', ...)
\* opens in text mode with newline=None, which translates the line ends.
\* (Writing with open(file_path, 'w', ...) leaves \n as it is where
\* os.linesep is \n.)
UniversalNewlines(text) ==
  IF \E i \in 1..Len(text) : CharAt(text, i) = "\r"
  THEN TranslateNewlines(text, 1, Len(text))
  ELSE text

RECURSIVE HexVal(_)
\* The number that the hexadecimal digits h stand for.
HexVal(h) ==
  IF Len(h) = 0 THEN 0
  ELSE HexVal(SubSeq(h, 1, Len(h) - 1)) * 16
       + (CHOOSE k \in 0..15 : CharAt(HexDigits, k + 1) = CharAt(h, Len(h)))

\* The bytes of the UTF-8 encoding of a code point.
Utf8(cp) ==
  IF cp < 128 THEN <<cp>>
  ELSE IF cp < 2048 THEN <<192 + (cp \div 64), 128 + (cp % 64)>>
  ELSE IF cp < 65536
  THEN <<224 + (cp \div 4096), 128 + ((cp \div 64) % 64), 128 + (cp % 64)>>
  ELSE <<240 + (cp \div 262144), 128 + ((cp \div 4096) % 64),
         128 + ((cp \div 64) % 64), 128 + (cp % 64)>>

\* The code point of a character written as a reference.
CodeOf(c) == HexVal(SubSeq(c, 4, Len(c) - 1))

\* In how many bytes the character c is written.
ByteCount(c) == IF Len(c) = 1 THEN 1 ELSE Len(Utf8(CodeOf(c)))

RECURSIVE FirstBytes(_, _)
\* The first k bytes of the character c, for k less than their number, each
\* as a byte of no complete character.
FirstBytes(c, k) ==
  IF k = 0 THEN ""
  ELSE FirstBytes(c, k - 1) \o "&#b"
       \o CharAt(HexDigits, (Utf8(CodeOf(c))[k] \div 16) + 1)
       \o CharAt(HexDigits, (Utf8(CodeOf(c))[k] % 16) + 1) \o ";"

\* What the file can hold when writing text to it, emptied, fails: the first
\* n bytes of the encoded text, for any n (none, all, or up to the inside of
\* a character).
WrittenParts(text) ==
  {text} \cup
  UNION {{SubSeq(text, 1, i - 1) \o FirstBytes(UnitAt(text, i), k) :
            k \in 0..(ByteCount(UnitAt(text, i)) - 1)} :
         i \in {j \in 1..Len(text) : IsBoundary(text, j)}}

\* What a failure of open(file_path, 'w', ...) or of f.write(content) leaves
\* of the file that held old: old itself when the open failed, otherwise a
\* part of content.
FailedWrite(old, content) ==
  {[left |-> old, opened |-> FALSE]}
  \cup {[left |-> part, opened |-> TRUE] : part \in WrittenParts(content)}

(***************************************************************************)
(* Faulty variants of replace_fontawesome_in_file: the open and the read   *)
(* outside the try; the write outside the try; the original text written   *)
(* back instead of the new one.                                            *)
(***************************************************************************)
replace_fontawesome_in_file_read_outside_try(file_path) ==
  IF faults[file_path] = "noread" \/ ~Decodable(files[file_path])
  THEN {[content |-> files[file_path], returned |-> 0, error |-> "read",
         wrote |-> FALSE, raised |-> TRUE]}
  ELSE LET original_content == UniversalNewlines(files[file_path])
           r == Rewrite(original_content)
       IN IF r.content # original_content
          THEN IF faults[file_path] = "nowrite"
               THEN {[content |-> w.left, returned |-> 0, error |-> "write",
                      wrote |-> w.opened, raised |-> FALSE] :
                       w \in FailedWrite(files[file_path], r.content)}
               ELSE {[content |-> r.content, returned |-> r.changes,
                      error |-> "none", wrote |-> TRUE, raised |-> FALSE]}
          ELSE {[content |-> files[file_path], returned |-> 0,
                 error |-> "none", wrote |-> FALSE, raised |-> FALSE]}

replace_fontawesome_in_file_write_outside_try(file_path) ==
  IF faults[file_path] = "noread" \/ ~Decodable(files[file_path])
  THEN {[content |-> files[file_path], returned |-> 0, error |-> "read",
         wrote |-> FALSE, raised |-> FALSE]}
  ELSE LET original_content == UniversalNewlines(files[file_path])
           r == Rewrite(original_content)
       IN IF r.content # original_content
          THEN IF faults[file_path] = "nowrite"
               THEN {[content |-> w.left, returned |-> 0, error |-> "write",
                      wrote |-> w.opened, raised |-> TRUE] :
                       w \in FailedWrite(files[file_path], r.content)}
               ELSE {[content |-> r.content, returned |-> r.changes,
                      error |-> "none", wrote |-> TRUE, raised |-> FALSE]}
          ELSE {[content |-> files[file_path], returned |-> 0,
                 error |-> "none", wrote |-> FALSE, raised |-> FALSE]}

replace_fontawesome_in_file_writes_original(file_path) ==
  IF faults[file_path] = "noread" \/ ~Decodable(files[file_path])
  THEN {[content |-> files[file_path], returned |-> 0, error |-> "read",
         wrote |-> FALSE, raised |-> FALSE]}
  ELSE LET original_content == UniversalNewlines(files[file_path])
           r == Rewrite(original_content)
       IN IF r.content # original_content
          THEN IF faults[file_path] = "nowrite"
               THEN {[content |-> w.left, returned |-> 0, error |-> "write",
                      wrote |-> w.opened, raised |-> FALSE] :
                       w \in FailedWrite(files[file_path], r.content)}
               ELSE {[content |-> original_content, returned |-> r.changes,
                      error |-> "none", wrote |-> TRUE, raised |-> FALSE]}
          ELSE {[content |-> files[file_path], returned |-> 0,
                 error |-> "none", wrote |-> FALSE, raised |-> FALSE]}

(***************************************************************************)
(* replace_fontawesome_in_file(file_path): the outcomes of one call.  An   *)
(* outcome is the text the file holds afterwards, the value returned,      *)
(* whether the error line was printed (and for what), whether the file was *)
(* opened for writing, and whether an exception leaves the function.  The  *)
(* call has one outcome unless writing fails: how much of the new text     *)
(* reached the file is then the environment's choice.                      *)
(***************************************************************************)
replace_fontawesome_in_file(file_path) ==
  IF faults[file_path] = "noread" \/ ~Decodable(files[file_path])
  THEN \* open or read raises inside the try: except Exception prints the
       \* error and returns 0
       {[content |-> files[file_path], returned |-> 0, error |-> "read",
         wrote |-> FALSE, raised |-> FALSE]}
  ELSE LET original_content == UniversalNewlines(files[file_path])
           r == Rewrite(original_content)
       IN IF r.content # original_content
          THEN IF faults[file_path] = "nowrite"
               THEN \* the write is inside the same try
                    {[content |-> w.left, returned |-> 0, error |-> "write",
                      wrote |-> w.opened, raised |-> FALSE] :
                       w \in FailedWrite(files[file_path], r.content)}
               ELSE {[content |-> r.content, returned |-> r.changes,
                      error |-> "none", wrote |-> TRUE, raised |-> FALSE]}
          ELSE {[content |-> files[file_path], returned |-> 0,
                 error |-> "none", wrote |-> FALSE, raised |-> FALSE]}

(***************************************************************************)
(* main()                                                                  *)
(***************************************************************************)
\* list(base_dir.rglob('*.ejs')), as a set: the order is the file system's.
Rglob == {p \in DOMAIN files : IsUnder(p, base_dir) /\ EndsWith(p[Len(p)], ".ejs")}

\* A faulty variant of FilesToProcess: sorted() is missing.
FilesToProcess_unsorted(listing) == ExcludeBackup(listing, 1)

\* The list of the loop: the listing, filtered, sorted.
FilesToProcess(listing) == sorted(ExcludeBackup(listing, 1))

\* main() when views/ does not exist: a message, and return.
MainNoViews ==
  /\ pc = "start"
  /\ ~views_exists
  /\ out' = <<Line("banner", <<>>, 0, 0), Line("not_found", base_dir, 0, 0)>>
  /\ pc' = "done"
  /\ UNCHANGED <<files, faults, views_exists, ejs_files, idx, total_changes,
                 files_modified, run, at_start, calls, given>>

\* main() up to the loop.
MainStart ==
  /\ pc = "start"
  /\ views_exists
  /\ \E listing \in Listings(Rglob) :
       /\ ejs_files' = FilesToProcess(listing)
       /\ out' = <<Line("banner", <<>>, 0, 0),
                   Line("found", <<>>, Len(ExcludeBackup(listing, 1)), 0)>>
  /\ total_changes' = 0
  /\ files_modified' = 0
  /\ idx' = 1
  /\ pc' = "loop"
  /\ UNCHANGED <<files, faults, views_exists, run, at_start, calls, given>>

\* One iteration of the loop of main().
ProcessFile ==
  /\ pc = "loop"
  /\ idx <= Len(ejs_files)
  /\ \E res \in replace_fontawesome_in_file(ejs_files[idx]) :
       LET file_path == ejs_files[idx]
           changes == res.returned
           errs == IF res.error # "none"
                   THEN <<Line("error", file_path, 0, 0)>> ELSE <<>>
       IN /\ files' = [files EXCEPT ![file_path] = res.content]
          /\ calls' = Append(calls,
                        [run |-> run, path |-> file_path,
                         before |-> files[file_path], after |-> res.content,
                         returned |-> res.returned, error |-> res.error,
                         wrote |-> res.wrote])
          /\ IF res.raised
             THEN /\ pc' = "crashed"
                  /\ out' = out \o errs
                  /\ UNCHANGED <<idx, total_changes, files_modified>>
             ELSE /\ pc' = pc
                  /\ idx' = idx + 1
                  /\ IF changes > 0
                     THEN /\ out' = out \o errs
                                    \o <<Line("replaced", file_path, changes, 0)>>
                          /\ total_changes' = total_changes + changes
                          /\ files_modified' = files_modified + 1
                     ELSE /\ out' = out \o errs
                          /\ UNCHANGED <<total_changes, files_modified>>
  /\ UNCHANGED <<faults, views_exists, ejs_files, run, at_start, given>>

\* main() after the loop: the summary.
Summarize ==
  /\ pc = "loop"
  /\ idx > Len(ejs_files)
  /\ out' = out \o <<Line("summary", <<>>, files_modified, total_changes)>>
  /\ pc' = "done"
  /\ UNCHANGED <<files, faults, views_exists, ejs_files, idx, total_changes,
                 files_modified, run, at_start, calls, given>>

\* The program is run again on the tree as the run before left it.
RunAgain ==
  /\ pc = "done"
  /\ run < MaxRuns
  /\ run' = run + 1
  /\ pc' = "start"
  /\ at_start' = files
  /\ ejs_files' = <<>>
  /\ idx' = 0
  /\ total_changes' = 0
  /\ files_modified' = 0
  /\ out' = <<>>
  /\ UNCHANGED <<files, faults, views_exists, calls, given>>

Next == MainNoViews \/ MainStart \/ ProcessFile \/ Summarize \/ RunAgain

(***************************************************************************)
(* The trees the program is run on.                                        *)
(***************************************************************************)
\* A tree with several files: three the program should process (two whose
\* text and faults vary, one that holds an icon and has no fault), one below a
\* directory named backup, one whose name only holds the word, one that is
\* no .ejs file, one outside views/.
VariedPaths == { <<"views", "a.ejs">>, <<"views", "admin", "b.ejs">> }
FixedPaths  == { <<"views", "z.ejs">>,
                 <<"views", "backup", "c.ejs">>,
                 <<"views", "admin", "backup-list.ejs">>,
                 <<"views", "notes.txt">>,
                 <<"public", "e.ejs">> }
TreePaths   == VariedPaths \cup FixedPaths

IconText == "<i class=\"far fa-bell\"></i>"
TreeContents ==
  { "<p>hi</p>",
    "<i class=\"fas fa-save\"></i>S",
    "<i class=\"fas fa-spinner fa-spin\" id=\"s\"></i>" }

FaultSets(paths) ==
  {f \in [paths -> {"none", "noread", "nowrite"}] :
     Cardinality({p \in paths : f[p] # "none"}) <= MaxFaults}

InitRun ==
  /\ pc = "start"
  /\ run = 1
  /\ ejs_files = <<>>
  /\ idx = 0
  /\ total_changes = 0
  /\ files_modified = 0
  /\ out = <<>>
  /\ calls = <<>>
  /\ at_start = files

Init ==
  /\ \E c \in [VariedPaths -> TreeContents] :
       files = [p \in TreePaths |-> IF p \in VariedPaths THEN c[p] ELSE IconText]
  /\ \E f \in FaultSets(VariedPaths) :
       faults = [p \in TreePaths |-> IF p \in VariedPaths THEN f[p] ELSE "none"]
  /\ views_exists \in BOOLEAN
  /\ given = [kind |-> "tree"]
  /\ InitRun

Spec == Init /\ [][Next]_vars

(***************************************************************************)
(* A tree with one readable, writable file, views/page.ejs, whose text is  *)
(* one icon element, put together from parts, or no icon element at all.   *)
(***************************************************************************)
Prefixes == {"fas", "far", "fab"}
TableIds == {ICON_MAP[k][1] : k \in 1..Len(ICON_MAP)}

\* gap is the whitespace between the prefix and the next class token.
Element(g, gap) ==
  [kind |-> "element", pre |-> g[1], lead |-> g[2], prefix |-> g[3],
   mid |-> g[4], id |-> g[5], rest |-> g[6], attrs |-> g[7], post |-> g[8],
   gap |-> gap]

\* <i class="P ID"></i> for every identifier of the table and every prefix.
NarrowInputs ==
  {Element(<<"", "", p, "", id, "", "", "">>, " ") :
     p \in Prefixes, id \in TableIds}

\* Identifiers of the table, and two that are not in it.
SampleIds == {"fa-save", "fa-spinner", "fa-times-circle", "fa-user",
              "fa-user-plus", "fa-bogus"}

\* The element with other class tokens before the prefix, between the prefix
\* and the identifier (one that ends in a prefix, one that does not) and
\* after the identifier, with another attribute, with text around it, with
\* line ends of every kind around it.
VariedInputs ==
  {Element(<<w[1], lead, "fas", mid, id, rest, attrs, w[2]>>, " ") :
     w \in {<<"", "">>, <<"<b>", "  Save</b>">>, <<"a\r\nb\r", "\r\nc\n">>},
     lead \in {"", "me-2 "}, mid \in {"", "fa-fw ", "btn-fab "},
     id \in SampleIds,
     rest \in {"", " fa-spin"},
     attrs \in {"", " style=\"color:red\"", " id=\"x\""}}

\* The element with other whitespace than a space after the prefix: a
\* vertical tab, U+001C, a no-break space, an em space, a line end.
SpacedInputs ==
  {Element(<<"", "", "fas", mid, "fa-save", "", "", "">>, gap) :
     mid \in {"", "fa-fw ", "btn-fab "},
     gap \in {"", "", "&#xA0;", "&#x2003;", "\r\n", "\t "}}

PlainInputs ==
  {[kind |-> "plain", text |-> t] :
     t \in {"", "<p>Hello</p>", "<i>note</i>", "<p>a</p>\r\n<p>b</p>\r",
            "<p>&#bull;</p>",
            "<i class=\"fas fa-<%= icon %>\"></i>"}}

Compose(g) ==
  IF g.kind = "plain" THEN g.text
  ELSE g.pre \o "<i class=\"" \o g.lead \o g.prefix \o g.gap \o g.mid \o g.id
       \o g.rest \o "\"" \o g.attrs \o "></i>" \o g.post

PagePath == <<"views", "page.ejs">>

InitFile ==
  /\ given \in NarrowInputs \cup VariedInputs \cup SpacedInputs \cup PlainInputs
  /\ files = [p \in {PagePath} |-> Compose(given)]
  /\ faults = [p \in {PagePath} |-> "none"]
  /\ views_exists \in BOOLEAN
  /\ InitRun

SpecFile == InitFile /\ [][Next]_vars

(***************************************************************************)
(* Claims about one call on one file (checked under SpecFile).  The first  *)
(* call on views/page.ejs is calls[1], the call of the second run is       *)
(* calls[2].                                                               *)
(***************************************************************************)
Called == given.kind # "tree" /\ Len(calls) >= 1

\* The replacement the table maps an identifier of the table to.
MappedEmoji(id) ==
  ICON_MAP[CHOOSE k \in 1..Len(ICON_MAP) : ICON_MAP[k][1] = id][2]

\* s, as it is read, without its leading whitespace.
LStrip(s) ==
  LET read == UniversalNewlines(s)
  IN SubSeq(read, RunLength(Star(Whitespace), read, 1) + 1, Len(read))

IsPrefixOf(a, b) == Len(a) <= Len(b) /\ SubSeq(b, 1, Len(a)) = a

\* The class attribute is one prefix and one identifier, and the element has
\* no other attribute.
IsNarrow(g) ==
  g.kind = "element" /\ g.lead = "" /\ g.mid = "" /\ g.rest = "" /\ g.attrs = ""

\* C1: when the only icon element of the file is <i class="P ID"></i> with ID
\* in the table, one call leaves the replacement the table maps to ID and one
\* space in its place, and returns 1.
C1_NarrowFormGetsItsOwnEmoji ==
  (Called /\ IsNarrow(given) /\ given.id \in TableIds) =>
     /\ calls[1].after =
          UniversalNewlines(given.pre) \o MappedEmoji(given.id) \o " "
            \o LStrip(given.post)
     /\ calls[1].returned = 1

\* C2: an element whose class is exactly "fas fa-spinner fa-spin" is replaced
\* by the glyph of the special case, and no space is added after it.
C2_SpinnerGlyphWithoutSpace ==
  ( /\ Called /\ given.kind = "element"
    /\ given.lead = "" /\ given.prefix = "fas" /\ given.mid = ""
    /\ given.id = "fa-spinner" /\ given.rest = " fa-spin" ) =>
     calls[1].after =
       UniversalNewlines(given.pre) \o SPINNER_GLYPH \o UniversalNewlines(given.post)

\* The element has the shape the two patterns are written for: no attribute
\* but an optional style.
HasIconShape(g) ==
  g.kind = "element" /\ g.attrs \in {"", " style=\"color:red\""}

\* C3 as stated: the element is replaced by the replacement of ID wherever ID
\* stands among the class tokens, also when other tokens separate it from the
\* prefix.
C3_ReplacedWhereverIdStands ==
  (Called /\ HasIconShape(given) /\ given.id \in TableIds) =>
     calls[1].after =
       UniversalNewlines(given.pre) \o MappedEmoji(given.id) \o " "
         \o LStrip(given.post)

\* No identifier that stands earlier in the table is a leading part of id
\* (the identifiers that have one are the case of C1).
NoEarlierLeadingPart(id) ==
  ICON_MAP[Min({k \in 1..Len(ICON_MAP) : IsPrefixOf(ICON_MAP[k][1], id)})][1] = id

\* What stands in the class attribute just before the whitespace before the
\* identifier is fas, far or fab: the prefix token itself when the identifier
\* is the next token, otherwise the end of the token before the identifier.
PrefixBeforeId(g) ==
  \/ g.mid = ""
  \/ \E k \in 3..(Len(g.mid) - 1) :
        /\ SubSeq(g.mid, k - 2, k) \in Prefixes
        /\ \A j \in (k + 1)..Len(g.mid) : CharAt(g.mid, j) \in Whitespace

\* C3, amended: for an ID of which no earlier identifier is a leading part,
\* in an element whose other class tokens begin with no identifier of the
\* table: when ID is the token directly after the prefix, the element is
\* replaced by ID's replacement and one space, with count 1, whatever tokens
\* stand before the prefix or after ID and whatever whitespace stands
\* between the prefix and ID; when other tokens stand between the prefix and
\* ID, the element is replaced in the same way if the token just before ID
\* ends in fas, far or fab, and is otherwise left as it is, with count 0.
C3_ReplacedWhenIdFollowsPrefix ==
  ( /\ Called /\ HasIconShape(given)
    /\ given.id \in TableIds /\ NoEarlierLeadingPart(given.id) ) =>
     IF PrefixBeforeId(given)
     THEN /\ calls[1].after =
               UniversalNewlines(given.pre) \o MappedEmoji(given.id) \o " "
                 \o LStrip(given.post)
          /\ calls[1].returned = 1
     ELSE /\ calls[1].after = calls[1].before
          /\ calls[1].returned = 0

\* C3, witness: an identifier of the table directly after the prefix, with
\* tokens before the prefix and after the identifier, was replaced.
C3_Witness ==
  /\ Called /\ HasIconShape(given) /\ given.id = "fa-save"
  /\ given.lead # "" /\ given.mid = "" /\ given.rest # ""
  /\ calls[1].returned = 1
  /\ calls[1].after # calls[1].before

\* C6: when the first call replaced a single narrow-form element (count 1),
\* the call of the second run returns 0, writes nothing and leaves the text
\* as it is.
C6_SecondCallChangesNothing ==
  ( /\ given.kind # "tree" /\ Len(calls) >= 2
    /\ IsNarrow(given) /\ calls[1].returned = 1 ) =>
     /\ calls[2].returned = 0
     /\ ~calls[2].wrote
     /\ calls[2].after = calls[2].before
     /\ calls[2].before = calls[1].after

\* C6, witness: a second call on a file whose narrow-form element the first
\* call replaced.
C6_Witness ==
  /\ given.kind # "tree" /\ Len(calls) >= 2
  /\ IsNarrow(given) /\ given.id \in TableIds
  /\ calls[1].returned = 1 /\ calls[1].wrote
  /\ calls[2].run = 2 /\ calls[2].returned = 0

\* No token of the class attribute is an identifier of the table.
NoKnownIdentifier(g) ==
  g.kind = "plain" \/ (g.kind = "element" /\ g.id \notin TableIds)

\* C7: a file with no icon element that carries an identifier of the table is
\* not written, keeps its text and gives 0.
C7_UnknownIdentifierUntouched ==
  (Called /\ NoKnownIdentifier(given)) =>
     /\ ~calls[1].wrote
     /\ calls[1].after = calls[1].before
     /\ calls[1].returned = 0

(***************************************************************************)
(* Claims about a run of main() (checked under Spec).                      *)
(***************************************************************************)
\* The calls of replace_fontawesome_in_file of the current run.
ThisRun == {i \in 1..Len(calls) : calls[i].run = run}

\* The run reached the end of main() with views/ present.
RunEnded == pc = "done" /\ views_exists

Printed(line) == \E i \in 1..Len(out) : out[i] = line

SummaryPrinted == \E i \in 1..Len(out) : out[i].kind = "summary"

\* Every file of the list of the loop was passed to the rewriter.
AllProcessed ==
  \A j \in 1..Len(ejs_files) : \E i \in ThisRun : calls[i].path = ejs_files[j]

\* C4: a file is opened if and only if it lies under views/, its name ends in
\* .ejs and no segment of its path is named backup; each such file is
\* processed exactly once.
C4_OpenedIffCandidate ==
  RunEnded =>
    \A p \in DOMAIN files :
      Cardinality({i \in ThisRun : calls[i].path = p})
        = IF /\ IsUnder(p, base_dir)
             /\ EndsWith(p[Len(p)], ".ejs")
             /\ "backup" \notin Range(p)
          THEN 1 ELSE 0

\* C5: a failure to read a file is caught: it is reported with the path, the
\* call gives 0 and the file keeps its text; no exception leaves main, and at
\* the end every file of the list was processed and the summary was printed.
C5_ReadFailureCaught ==
  /\ pc # "crashed"
  /\ \A i \in 1..Len(calls) :
       calls[i].error = "read" =>
         /\ calls[i].returned = 0
         /\ ~calls[i].wrote
         /\ calls[i].after = calls[i].before
         /\ i \in ThisRun => Printed(Line("error", calls[i].path, 0, 0))
  /\ RunEnded => (AllProcessed /\ SummaryPrinted)

\* C5, witness: a run ended in which the first file of the list could not be
\* read and the files after it were processed.
C5_Witness ==
  /\ RunEnded /\ Len(ejs_files) >= 2
  /\ \E i \in ThisRun : calls[i].path = ejs_files[1] /\ calls[i].error = "read"
  /\ \E i \in ThisRun : calls[i].path = ejs_files[2] /\ calls[i].wrote
  /\ SummaryPrinted

\* C8 as stated: after a failure to write a file back the run is halted: no
\* later file is processed and no summary is printed.
C8_WriteFailureHaltsRun ==
  (\E i \in ThisRun : calls[i].error = "write") => pc = "crashed"

\* C8, amended: a failure to write a file back is caught like a failure to
\* read: it is reported with the path and the call gives 0; no exception
\* leaves main, the later files are processed and the summary is printed.
C8_WriteFailureCaught ==
  /\ \A i \in 1..Len(calls) :
       calls[i].error = "write" =>
         /\ calls[i].returned = 0
         /\ i \in ThisRun =>
              /\ Printed(Line("error", calls[i].path, 0, 0))
              /\ pc \in {"loop", "done"}
  /\ (RunEnded /\ \E i \in ThisRun : calls[i].error = "write") =>
       (AllProcessed /\ SummaryPrinted)

\* C8, witness: a run ended in which writing the first file of the list
\* failed and the next file was rewritten.
C8_Witness ==
  /\ RunEnded /\ Len(ejs_files) >= 2
  /\ \E i \in ThisRun : calls[i].path = ejs_files[1] /\ calls[i].error = "write"
  /\ \E i \in ThisRun : calls[i].path = ejs_files[2] /\ calls[i].wrote
  /\ SummaryPrinted

\* C9: at the end of a run (here: one in which no read and no write failed)
\* files_modified is the number of files that were overwritten: a file is
\* written exactly when its call gives more than 0.
C9_ModifiedCountsWrittenFiles ==
  (RunEnded /\ \A i \in ThisRun : calls[i].error = "none") =>
    /\ files_modified = Cardinality({i \in ThisRun : calls[i].wrote})
    /\ \A i \in ThisRun : calls[i].wrote <=> calls[i].returned > 0

\* The files of the list are in sorted order.
IsSorted(paths) ==
  \A i, j \in 1..Len(paths) : i < j => PathLess(paths[i], paths[j])

\* C10: the files are processed one at a time in sorted order, and at every
\* point of a run a file that sorts after the file processed last has the
\* text it had when the run started; only files at or before that position
\* differ from it.
C10_LaterFilesUntouched ==
  (pc \in {"loop", "done"} /\ views_exists) =>
    /\ IsSorted(ejs_files)
    /\ Cardinality(ThisRun) = idx - 1
    /\ \A i \in ThisRun : \E k \in 1..(idx - 1) :
         /\ calls[i].path = ejs_files[k]
         /\ i = Min(ThisRun) + k - 1
    /\ \A p \in DOMAIN files :
         files[p] # at_start[p] =>
           /\ idx >= 2
           /\ p \in Range(ejs_files)
           /\ ~PathLess(ejs_files[idx - 1], p)

\* C10, witness: the first file of a list of three was rewritten, and the
\* last one, which holds an icon, has not been reached.
C10_Witness ==
  /\ pc = "loop" /\ idx = 2 /\ Len(ejs_files) = 3
  /\ files[ejs_files[1]] # at_start[ejs_files[1]]
  /\ files[ejs_files[2]] = "<i class=\"fas fa-save\"></i>S"
  /\ files[ejs_files[3]] = IconText
====
